---- MODULE Spec2Model ----
(***************************************************************************)
(* Model of the transcript formatting pipeline of podcast-summarizer       *)
(* (src/src/claude.ts, the revision at lines 117-434): the sentence        *)
(* boundary chunk splitter, the Claude client with retry and backoff, the  *)
(* batch client, the result parser and formatTranscript.                   *)
(*                                                                         *)
(* Texts are sequences of one-character strings; position p of the source  *)
(* (0-based) is index p+1 here.                                            *)
(***************************************************************************)
EXTENDS Integers, Sequences, FiniteSets, TLC

\* ------------------------------------------------------------------ bounds
\* Longest transcript text explored.
MaxLen == 10

\* Longest transcript text handed to formatTranscript.
MaxFormatLen == 7

\* Longest generation result handed to parseFormatResult on its own.
MaxResultLen == 4

\* Longest text and widest window of a findSentenceBoundary scan on its own.
MaxScanLen == 5
MaxWindow == 3

\* Most episodes one run of main collects.
MaxEpisodes == 6

\* Greatest maxRetries argument of transcribeWithRetry.
MaxTranscribeRetries == 3

\* FORMAT_CHUNK_THRESHOLD is 12000 in the source and the lookahead window of
\* findSentenceBoundary is 500. Both are scaled down so that texts of several
\* chunks can be enumerated; the arithmetic on them is the source's. The
\* scale keeps what the source's numbers give: the window is shorter than
\* every chunk size, and a text of two chunks cannot lose its last chunk to
\* one forward adjustment (in the source the adjustments of 24 boundaries
\* are needed, here those of 2).
FORMAT_CHUNK_THRESHOLD == 3
SentenceLookahead == 1

\* The characters a text is made of: an ordinary character and two of the
\* three sentence terminators the source tests for (U+3002 takes the same
\* branch as ".").
Chars == {"a", ".", "\n"}

Texts == UNION {[1..n -> Chars] : n \in 0..MaxLen}

Min(a, b) == IF a <= b THEN a ELSE b

\* Math.ceil(a / b) for a >= 0, b > 0
CeilDiv(a, b) == (a + b - 1) \div b

RECURSIVE Concat(_)
Concat(ss) == IF ss = <<>> THEN <<>> ELSE Head(ss) \o Concat(Tail(ss))

\* String.prototype.slice(from, to) for non-negative arguments: both ends
\* are clipped to the length, and an empty string results when from >= to.
Slice(t, from, to) ==
    LET f == Min(from, Len(t))
        e == Min(to, Len(t))
    IN IF f >= e THEN <<>> ELSE SubSeq(t, f + 1, e)

\* ------------------------------------------------- findSentenceBoundary
IsTerminator(c) == c = "." \/ c = "\n"

\* A scan that answers -1 when it finds no terminator.
ScanBoundary_NotFoundMinusOne(t, targetPosition, window) ==
    LET hits == {i \in targetPosition .. (Min(Len(t), targetPosition + window) - 1) :
                    IsTerminator(t[i + 1])}
    IN IF hits = {} THEN 0 - 1
       ELSE (CHOOSE i \in hits : \A j \in hits : i <= j) + 1

\* A scan that cuts at the last terminator of the window.
ScanBoundary_LastHit(t, targetPosition, window) ==
    LET hits == {i \in targetPosition .. (Min(Len(t), targetPosition + window) - 1) :
                    IsTerminator(t[i + 1])}
    IN IF hits = {} THEN targetPosition
       ELSE (CHOOSE i \in hits : \A j \in hits : i >= j) + 1

\* The scan of lines 260-266 over a window of the given width: the index
\* after the first terminator at targetPosition .. targetPosition+window-1
\* (clipped to the text), or targetPosition when there is none.
ScanBoundary(t, targetPosition, window) ==
    LET hits == {i \in targetPosition .. (Min(Len(t), targetPosition + window) - 1) :
                    IsTerminator(t[i + 1])}
    IN IF hits = {} THEN targetPosition
       ELSE (CHOOSE i \in hits : \A j \in hits : i <= j) + 1

findSentenceBoundary(t, targetPosition) ==
    ScanBoundary(t, targetPosition, SentenceLookahead)

\* ---------------------------------------------------- splitTextIntoChunks
numChunksOf(t) == CeilDiv(Len(t), FORMAT_CHUNK_THRESHOLD)
chunkSizeOf(t) == CeilDiv(Len(t), numChunksOf(t))

SplitStart == [i |-> 0, currentPos |-> 0, chunks |-> <<>>, ends |-> <<>>]

\* The end of chunk i (line 346-347).
ChunkEnd(t, i, currentPos) ==
    IF i = numChunksOf(t) - 1 THEN Len(t)
    ELSE findSentenceBoundary(t, currentPos + chunkSizeOf(t))

\* A loop that advances currentPos to the target instead of the adjusted end.
SplitIter_TargetPos(t, st) ==
    LET end == ChunkEnd(t, st.i, st.currentPos)
    IN [i |-> st.i + 1,
        currentPos |-> IF st.i = numChunksOf(t) - 1 THEN end
                       ELSE st.currentPos + chunkSizeOf(t),
        chunks |-> Append(st.chunks, Slice(t, st.currentPos, end)),
        ends |-> Append(st.ends, end)]

\* One iteration of the loop at lines 345-352. ends records the `end` of
\* every iteration (the value the source logs and assigns to currentPos).
SplitIter(t, st) ==
    LET end == ChunkEnd(t, st.i, st.currentPos)
    IN [i |-> st.i + 1,
        currentPos |-> end,
        chunks |-> Append(st.chunks, Slice(t, st.currentPos, end)),
        ends |-> Append(st.ends, end)]

RECURSIVE SplitRun(_, _)
SplitRun(t, st) ==
    IF st.i < numChunksOf(t) THEN SplitRun(t, SplitIter(t, st)) ELSE st

\* A short path that drops an empty text.
ShortChunks_DropEmpty(t) == IF t = <<>> THEN <<>> ELSE <<t>>

\* line 335
ShortChunks(t) == <<t>>

splitTextIntoChunks(t) ==
    IF Len(t) <= FORMAT_CHUNK_THRESHOLD THEN ShortChunks(t)
    ELSE SplitRun(t, SplitStart).chunks

\* ------------------------------------------------------ generation texts
\* A generation result is a sequence of tokens: "{" and "}" are the braces
\* the extraction regex looks for, "Sa" and "Sb" are well-formed
\* `"sections": [...]` members (of two and of one section), "K" is a
\* well-formed member under another key, "x" is any other run of text.
Tokens == {"{", "}", "x", "K", "Sa", "Sb"}
MemberTokens == {"K", "Sa", "Sb"}

\* The results the service is taken to answer with.
ResponseTexts ==
    { <<"x">>,
      <<"{", "Sa", "}">>,
      <<"x", "{", "Sb", "}", "x">>,
      <<"{", "K", "}">>,
      <<"{", "x", "}">>,
      <<"}", "x", "{">> }

\* ------------------------------------------------------------- callClaude
maxRetries == 3

\* What UrlFetchApp.fetch can do: throw (transport failure), or answer with
\* a status code and a body; bodyOk says whether JSON.parse of a 200 body
\* and data.content[0].text succeed.
FetchResponses ==
    {[kind |-> "response", code |-> 200, bodyOk |-> TRUE, text |-> t] : t \in ResponseTexts}
    \cup {[kind |-> "response", code |-> c, bodyOk |-> FALSE, text |-> <<>>] :
             c \in {400, 404, 429, 500, 503}}
    \cup {[kind |-> "response", code |-> 200, bodyOk |-> FALSE, text |-> <<>>]}
FetchThrows == [kind |-> "exception", code |-> 0, bodyOk |-> FALSE, text |-> <<>>]
FetchOutcomes == FetchResponses \cup {FetchThrows}

NoError == [kind |-> "none", code |-> 0, at |-> 0]

\* line 200
IsClientError(code) == code >= 400 /\ code < 500 /\ code # 429

\* The attempt returns (lines 194-197): a 200 whose body parses.
AttemptReturns(o) == o.kind = "response" /\ o.code = 200 /\ o.bodyOk

\* The error the try block of one attempt leaves in lastError. Everything
\* thrown inside the try block (by fetch, by JSON.parse or content[0] at
\* lines 195-196, and by the throw at line 201) is caught at line 208, and
\* line 205 assigns the rest.
AttemptError(o, attempt) ==
    IF o.kind = "exception" THEN [kind |-> "exception", code |-> 0, at |-> attempt]
    ELSE IF o.code = 200 THEN [kind |-> "parse", code |-> 200, at |-> attempt]
    ELSE [kind |-> "http", code |-> o.code, at |-> attempt]

\* line 189
LoopContinues_OneMore(attempt) == attempt <= maxRetries + 1
LoopContinues(attempt) == attempt <= maxRetries

\* line 213
ShouldWait_AfterLast(attempt) == attempt <= maxRetries
ShouldWait(attempt) == attempt < maxRetries

\* line 215
waitTime(attempt) == (2 ^ attempt) * 1000

\* A lastError that keeps the first error.
NextLastError_KeepFirst(prev, o, attempt) ==
    IF prev # NoError THEN prev ELSE AttemptError(o, attempt)

\* lines 205 and 209: lastError is overwritten by every failed attempt.
NextLastError(prev, o, attempt) == AttemptError(o, attempt)

FetchEvent(attempt, o) ==
    [ev |-> "fetch", attempt |-> attempt, kind |-> o.kind, code |-> o.code,
     ok |-> AttemptReturns(o), ms |-> 0, text |-> o.text]
SleepEvent(attempt) ==
    [ev |-> "sleep", attempt |-> attempt, kind |-> "", code |-> 0,
     ok |-> FALSE, ms |-> waitTime(attempt), text |-> <<>>]

CallIdle ==
    [pc |-> "idle", attempt |-> 1, lastError |-> NoError, events |-> <<>>,
     result |-> <<>>, error |-> NoError]
CallEntered == [CallIdle EXCEPT !.pc = "entered"]

\* ------------------------------------------------------ parseFormatResult
Section(title, content) == [title |-> title, content |-> content]

\* The sections a well-formed `"sections": [...]` member lists.
SectionsOfMember(tok) ==
    IF tok = "Sa" THEN <<Section(<<"ta1">>, <<"ca1">>), Section(<<"ta2">>, <<"ca2">>)>>
    ELSE IF tok = "Sb" THEN <<Section(<<"tb1">>, <<"cb1">>)>>
    ELSE <<>>

SetMin(S) == CHOOSE x \in S : \A y \in S : x <= y
SetMax(S) == CHOOSE x \in S : \A y \in S : x >= y

\* result.match(/\{[\s\S]*\}/) (line 311): the span from the first "{" to
\* the last "}" after it (the star is greedy), or no match.
MatchJson(result) ==
    LET opens == {k \in 1..Len(result) : result[k] = "{"}
        closes == {k \in 1..Len(result) : result[k] = "}"}
    IN IF opens = {} \/ closes = {} \/ SetMin(opens) > SetMax(closes)
       THEN [found |-> FALSE, span |-> <<>>]
       ELSE [found |-> TRUE, span |-> SubSeq(result, SetMin(opens), SetMax(closes))]

\* JSON.parse of a span that starts with "{" (line 315): it succeeds when
\* the span is one object, a "{", well-formed members, a "}". defined says
\* whether the object has a `sections` property; of two such members the
\* later one wins.
JsonParse(span) ==
    LET inner == 2..(Len(span) - 1)
        valid == /\ Len(span) >= 2
                 /\ span[1] = "{"
                 /\ span[Len(span)] = "}"
                 /\ \A k \in inner : span[k] \in MemberTokens
        secs == {k \in inner : span[k] \in {"Sa", "Sb"}}
    IN [ok |-> valid,
        defined |-> valid /\ secs # {},
        sections |-> IF valid /\ secs # {} THEN SectionsOfMember(span[SetMax(secs)])
                     ELSE <<>>]

\* line 318; the title stands for the source's fixed error title.
FormatErrorTitle == <<"FORMAT_ERROR">>

\* A fallback that loses the end of the result.
Fallback_Truncated(result) ==
    [defined |-> TRUE,
     sections |-> <<Section(FormatErrorTitle, SubSeq(result, 1, Len(result) - 1))>>]

Fallback(result) ==
    [defined |-> TRUE, sections |-> <<Section(FormatErrorTitle, result)>>]

\* lines 309-320: what the function returns, as the `sections` property of
\* the returned object (defined = FALSE: the object has no such property).
parseFormatResult(result) ==
    LET m == MatchJson(result)
        j == JsonParse(m.span)
    IN IF m.found /\ j.ok THEN [defined |-> j.defined, sections |-> j.sections]
       ELSE Fallback(result)

\* ----------------------------------------------------- callClaudeParallel
Pending == [kind |-> "pending", code |-> 0, bodyOk |-> FALSE, text |-> <<>>]

\* A fetchAll that hands back as soon as one response is there.
AllSettled_FirstOne(responses) ==
    \E k \in 1..Len(responses) : responses[k] # Pending

\* line 241: UrlFetchApp.fetchAll returns when every request has its
\* response.
AllSettled(responses) ==
    \A k \in 1..Len(responses) : responses[k] # Pending

\* A map that lets server errors through.
BatchFailures_ClientErrorsOnly(responses) ==
    {k \in 1..Len(responses) :
        responses[k].code # 200 /\ IsClientError(responses[k].code)}

\* The map of lines 243-250 over the responses, in index order: the first
\* response that is not a 200, or whose body does not parse, throws.
BatchFailures(responses) ==
    {k \in 1..Len(responses) : ~AttemptReturns(responses[k])}

BatchError(responses) ==
    LET k == SetMin(BatchFailures(responses))
    IN IF responses[k].code # 200
       THEN [kind |-> "batch", code |-> responses[k].code, at |-> k]
       ELSE [kind |-> "parse", code |-> 200, at |-> k]

BatchResults(responses) == [k \in 1..Len(responses) |-> responses[k].text]

\* -------------------------------------------------------- formatTranscript
\* Requests whose marker counts the parts from zero.
BuildRequests_ZeroBased(chunks) ==
    [k \in 1..Len(chunks) |->
        [partInfo |-> <<k - 1, Len(chunks)>>, userMessage |-> chunks[k], maxTokens |-> 16384]]

\* lines 376-380; partInfo <<i, n>> is the marker "part i of n".
BuildRequests(chunks) ==
    [k \in 1..Len(chunks) |->
        [partInfo |-> <<k, Len(chunks)>>, userMessage |-> chunks[k], maxTokens |-> 16384]]

\* The loop of lines 384-389 from index k on: the sections of every result
\* are pushed in index order. Reading parsed.sections.length (line 387) of
\* an object without `sections` throws a TypeError.
RECURSIVE PushAll_SkipFallback(_, _, _)
PushAll_SkipFallback(results, k, acc) ==
    IF k > Len(results) THEN [ok |-> TRUE, at |-> 0, sections |-> acc]
    ELSE LET parsed == parseFormatResult(results[k])
         IN IF ~parsed.defined THEN [ok |-> FALSE, at |-> k, sections |-> acc]
            ELSE IF parsed = Fallback(results[k])
                 THEN PushAll_SkipFallback(results, k + 1, acc)
                 ELSE PushAll_SkipFallback(results, k + 1, acc \o parsed.sections)

RECURSIVE PushAll_Prepend(_, _, _)
PushAll_Prepend(results, k, acc) ==
    IF k > Len(results) THEN [ok |-> TRUE, at |-> 0, sections |-> acc]
    ELSE LET parsed == parseFormatResult(results[k])
         IN IF ~parsed.defined THEN [ok |-> FALSE, at |-> k, sections |-> acc]
            ELSE PushAll_Prepend(results, k + 1, parsed.sections \o acc)

RECURSIVE PushAll(_, _, _)
PushAll(results, k, acc) ==
    IF k > Len(results) THEN [ok |-> TRUE, at |-> 0, sections |-> acc]
    ELSE LET parsed == parseFormatResult(results[k])
         IN IF ~parsed.defined THEN [ok |-> FALSE, at |-> k, sections |-> acc]
            ELSE PushAll(results, k + 1, acc \o parsed.sections)

\* lines 367-369 and 391-393
Divider == <<"\n\n---\n\n">>
RenderSection(s) == <<"## ">> \o s.title \o <<"\n\n">> \o s.content
\* A rendering that ends every block, the last one too, with the divider.
RenderFullText_TrailingDivider(sections) ==
    Concat([k \in 1..Len(sections) |-> RenderSection(sections[k]) \o Divider])

RECURSIVE RenderFullText(_)
RenderFullText(sections) ==
    IF sections = <<>> THEN <<>>
    ELSE IF Len(sections) = 1 THEN RenderSection(sections[1])
    ELSE RenderSection(sections[1]) \o Divider \o RenderFullText(Tail(sections))

NoOutput == [sections |-> <<>>, fullText |-> <<>>]

FmtIdle ==
    [pc |-> "idle", chunks |-> <<>>, requests |-> <<>>, responses |-> <<>>,
     order |-> <<>>, out |-> NoOutput, error |-> NoError]
FmtEntered == [FmtIdle EXCEPT !.pc = "entered"]

ParseIdle == [pc |-> "idle", out |-> [defined |-> FALSE, sections |-> <<>>]]

FormatTexts == {[k \in 1..n |-> c] : n \in 0..MaxFormatLen, c \in {"a", "."}}
ResultTexts == UNION {[1..n -> Tokens] : n \in 0..MaxResultLen}

ScanIdle == [pc |-> "idle", p |-> 0, window |-> 0, result |-> 0]
NoTranslated == [defined |-> FALSE, summary400 |-> <<>>, summary2000 |-> <<>>,
                 fullText |-> <<>>]
NoMarkdown == [written |-> FALSE, usesTranslated |-> FALSE, summary400 |-> <<>>,
               summary2000 |-> <<>>, fullText |-> <<>>]
EpFresh(lang) ==
    [pc |-> "transcribe", sourceLanguage |-> lang, failedAt |-> "",
     transcript |-> <<>>, fullText |-> <<>>, summary400 |-> <<>>,
     summary2000 |-> <<>>, translated |-> NoTranslated,
     translateInvocations |-> 0, generationCalls |-> 0, md |-> NoMarkdown]
EpIdle == [EpFresh("") EXCEPT !.pc = "idle"]
TrIdle == [pc |-> "idle", text |-> <<>>, sourceLanguage |-> "", out |-> <<>>,
           calls |-> 0, chunks |-> <<>>]
ImpIdle == [pc |-> "idle", dirExists |-> FALSE, files |-> {}, before |-> {},
            lastN |-> 0, targets |-> <<>>, newEpisodes |-> <<>>, started |-> {}]
MigIdle == [pc |-> "idle", run |-> 0, dir |-> {}, todo |-> {}, afterFirst |-> {}]
TxIdle == [pc |-> "idle", maxRetries |-> 0, i |-> 0, attempts |-> <<>>,
           sleeps |-> <<>>, lastError |-> "", result |-> "", error |-> ""]
StIdle == [before |-> <<0, 0>>, lastChecked |-> <<0, 0>>]
MainIdle == [pc |-> "idle", program |-> "", tasks |-> <<>>, processed |-> {}]

\* ------------------------------------------------------------------ state
VARIABLES
    text,       \* argument of splitTextIntoChunks / formatTranscript
    splitPc,    \* "ready" | "loop" | "done"
    split,      \* loop state: i, currentPos, chunks, ends
    apiKey,     \* whether getApiKeys().CLAUDE_KEY is set
    call,       \* one callClaude invocation: pc is "idle" | "entered" |
                \* "loop" | "returned" | "threw"; events logs the fetches
                \* and sleeps in the order they happen
    fmt,        \* one formatTranscript invocation: pc is "idle" | "entered"
                \* | "single" | "fetchAll" | "returned" | "threw"; order is
                \* the order in which the batch's requests completed
    result,     \* argument of a parseFormatResult call on its own
    parsed,     \* its state and return value
    scan,       \* one findSentenceBoundary call on its own (on text)
    ep,         \* one processEpisode invocation
    main,       \* one run of main: its position and its episode tasks
    tr,         \* one direct translateToJapanese invocation
    imp,        \* one run of the past-episode import over a directory
    mig,        \* the add-episode-id migration over a directory
    tx,         \* one transcribeWithRetry invocation
    st          \* the stored lastChecked of every feed

vars == <<text, splitPc, split, apiKey, call, fmt, result, parsed, scan, ep, main, tr,
          imp, mig, tx, st>>
toolVars == <<imp, mig, tx, st>>
ToolsIdle == imp = ImpIdle /\ mig = MigIdle /\ tx = TxIdle /\ st = StIdle
pipelineVars == <<scan, ep, main, tr, toolVars>>
splitVars == <<text, splitPc, split>>
PipelineIdle == scan = ScanIdle /\ ep = EpIdle /\ main = MainIdle /\ tr = TrIdle /\ ToolsIdle
parseVars == <<result, parsed>>

\* ------------------------------------------------- splitter, step by step
InitSplit ==
    /\ PipelineIdle
    /\ text \in Texts
    /\ splitPc = "ready"
    /\ split = SplitStart
    /\ apiKey = TRUE
    /\ call = CallIdle
    /\ fmt = FmtIdle
    /\ result = <<>>
    /\ parsed = ParseIdle

\* lines 334-336
SplitShort ==
    /\ splitPc = "ready"
    /\ Len(text) <= FORMAT_CHUNK_THRESHOLD
    /\ split' = [split EXCEPT !.chunks = ShortChunks(text)]
    /\ splitPc' = "done"
    /\ UNCHANGED <<pipelineVars, text, apiKey, call, fmt, parseVars>>

\* lines 338-344
SplitEnter ==
    /\ splitPc = "ready"
    /\ Len(text) > FORMAT_CHUNK_THRESHOLD
    /\ splitPc' = "loop"
    /\ UNCHANGED <<pipelineVars, text, split, apiKey, call, fmt, parseVars>>

\* lines 345-352
SplitStep ==
    /\ splitPc = "loop"
    /\ split.i < numChunksOf(text)
    /\ split' = SplitIter(text, split)
    /\ UNCHANGED <<pipelineVars, text, splitPc, apiKey, call, fmt, parseVars>>

\* line 354
SplitReturn ==
    /\ splitPc = "loop"
    /\ split.i >= numChunksOf(text)
    /\ splitPc' = "done"
    /\ UNCHANGED <<pipelineVars, text, split, apiKey, call, fmt, parseVars>>

NextSplit == SplitShort \/ SplitEnter \/ SplitStep \/ SplitReturn

SpecSplit == InitSplit /\ [][NextSplit]_vars

\* ------------------------------------------------ callClaude, step by step
\* lines 178-181
CallNoKey ==
    /\ call.pc = "entered"
    /\ ~apiKey
    /\ call' = [call EXCEPT !.pc = "threw",
                             !.error = [kind |-> "config", code |-> 0, at |-> 0]]
    /\ UNCHANGED <<pipelineVars, splitVars, apiKey, fmt, parseVars>>

\* lines 183-187
CallEnterLoop ==
    /\ call.pc = "entered"
    /\ apiKey
    /\ call' = [call EXCEPT !.pc = "loop"]
    /\ UNCHANGED <<pipelineVars, splitVars, apiKey, fmt, parseVars>>

\* One iteration of the loop at lines 189-219 that returns (lines 191-197).
CallAttemptReturns(o) ==
    /\ call.pc = "loop"
    /\ LoopContinues(call.attempt)
    /\ AttemptReturns(o)
    /\ call' = [call EXCEPT !.pc = "returned",
                             !.result = o.text,
                             !.events = Append(@, FetchEvent(call.attempt, o))]
    /\ UNCHANGED <<pipelineVars, splitVars, apiKey, fmt, parseVars>>

\* One iteration that fails: lastError is set (line 205 or 209), the
\* backoff of lines 213-218 follows, and the loop goes on.
CallAttemptFails(o) ==
    /\ call.pc = "loop"
    /\ LoopContinues(call.attempt)
    /\ ~AttemptReturns(o)
    /\ call' = [call EXCEPT
                   !.lastError = NextLastError(call.lastError, o, call.attempt),
                   !.events = IF ShouldWait(call.attempt)
                              THEN @ \o <<FetchEvent(call.attempt, o), SleepEvent(call.attempt)>>
                              ELSE Append(@, FetchEvent(call.attempt, o)),
                   !.attempt = @ + 1]
    /\ UNCHANGED <<pipelineVars, splitVars, apiKey, fmt, parseVars>>

\* line 221
CallExhausted ==
    /\ call.pc = "loop"
    /\ ~LoopContinues(call.attempt)
    /\ call' = [call EXCEPT !.pc = "threw",
                             !.error = IF call.lastError # NoError THEN call.lastError
                                       ELSE [kind |-> "generic", code |-> 0, at |-> 0]]
    /\ UNCHANGED <<pipelineVars, splitVars, apiKey, fmt, parseVars>>

CallReturns == \E o \in FetchOutcomes : CallAttemptReturns(o)
CallFails == \E o \in FetchOutcomes : CallAttemptFails(o)

InitCall ==
    /\ PipelineIdle
    /\ text = <<>>
    /\ splitPc = "ready"
    /\ split = SplitStart
    /\ apiKey \in BOOLEAN
    /\ call = CallEntered
    /\ fmt = FmtIdle
    /\ result = <<>>
    /\ parsed = ParseIdle

NextCall == CallNoKey \/ CallEnterLoop \/ CallReturns \/ CallFails \/ CallExhausted

SpecCall == InitCall /\ [][NextCall]_vars

\* ------------------------------------------- parseFormatResult on its own
InitParse ==
    /\ PipelineIdle
    /\ text = <<>>
    /\ splitPc = "ready"
    /\ split = SplitStart
    /\ apiKey = TRUE
    /\ call = CallIdle
    /\ fmt = FmtIdle
    /\ result \in ResultTexts
    /\ parsed = [ParseIdle EXCEPT !.pc = "entered"]

\* lines 309-320
Parse ==
    /\ parsed.pc = "entered"
    /\ parsed' = [pc |-> "returned", out |-> parseFormatResult(result)]
    /\ UNCHANGED <<pipelineVars, splitVars, apiKey, call, fmt, result>>

NextParse == Parse

SpecParse == InitParse /\ [][NextParse]_vars

\* ------------------------------------------ formatTranscript, step by step
\* line 362, then lines 364-366 up to the call of callClaude in
\* formatTranscriptChunk (line 326)
FormatStartSingle ==
    /\ fmt.pc = "entered"
    /\ LET chunks == splitTextIntoChunks(text)
       IN /\ Len(chunks) = 1
          /\ fmt' = [fmt EXCEPT
                       !.pc = "single",
                       !.chunks = chunks,
                       !.requests = <<[partInfo |-> <<0, 0>>, userMessage |-> text,
                                       maxTokens |-> 16384]>>]
    /\ call' = CallEntered
    /\ UNCHANGED <<pipelineVars, splitVars, apiKey, parseVars>>

\* callClaude threw: formatTranscriptChunk and formatTranscript pass it on.
FormatSingleThrows ==
    /\ fmt.pc = "single"
    /\ call.pc = "threw"
    /\ fmt' = [fmt EXCEPT !.pc = "threw", !.error = call.error]
    /\ UNCHANGED <<pipelineVars, splitVars, apiKey, call, parseVars>>

\* callClaude returned: line 327, then lines 367-370. parsed.sections.map of
\* an object without `sections` throws a TypeError.
FormatSingleFinish ==
    /\ fmt.pc = "single"
    /\ call.pc = "returned"
    /\ LET p == parseFormatResult(call.result)
       IN fmt' = IF p.defined
                 THEN [fmt EXCEPT !.pc = "returned",
                                  !.out = [sections |-> p.sections,
                                           fullText |-> RenderFullText(p.sections)]]
                 ELSE [fmt EXCEPT !.pc = "threw",
                                  !.error = [kind |-> "type", code |-> 0, at |-> 1]]
    /\ UNCHANGED <<pipelineVars, splitVars, apiKey, call, parseVars>>

\* line 362, lines 373-382 and callClaudeParallel up to fetchAll (line 241)
FormatStartMulti ==
    /\ fmt.pc = "entered"
    /\ LET chunks == splitTextIntoChunks(text)
       IN /\ Len(chunks) > 1
          /\ fmt' = IF apiKey
                    THEN [fmt EXCEPT
                            !.pc = "fetchAll",
                            !.chunks = chunks,
                            !.requests = BuildRequests(chunks),
                            !.responses = [k \in 1..Len(chunks) |-> Pending]]
                    ELSE [fmt EXCEPT
                            !.pc = "threw",
                            !.chunks = chunks,
                            !.requests = BuildRequests(chunks),
                            !.error = [kind |-> "config", code |-> 0, at |-> 0]]
    /\ UNCHANGED <<pipelineVars, splitVars, apiKey, call, parseVars>>

\* Inside UrlFetchApp.fetchAll: request k completes with response o; the
\* requests complete in any order, and the response array is in request
\* order.
FetchAllSettle(k, o) ==
    /\ fmt.pc = "fetchAll"
    /\ k \in 1..Len(fmt.responses)
    /\ fmt.responses[k] = Pending
    /\ fmt' = [fmt EXCEPT !.responses[k] = o, !.order = Append(@, k)]
    /\ UNCHANGED <<pipelineVars, splitVars, apiKey, call, parseVars>>

FetchAllSettles ==
    \E k \in 1..Len(fmt.responses) : \E o \in FetchResponses : FetchAllSettle(k, o)

\* fetchAll throws (a transport failure of a request): callClaudeParallel
\* and formatTranscript pass it on.
FetchAllThrows ==
    /\ fmt.pc = "fetchAll"
    /\ \E k \in 1..Len(fmt.responses) : fmt.responses[k] = Pending
    /\ fmt' = [fmt EXCEPT !.pc = "threw",
                           !.error = [kind |-> "exception", code |-> 0, at |-> 0]]
    /\ UNCHANGED <<pipelineVars, splitVars, apiKey, call, parseVars>>

\* fetchAll returned: lines 243-250, then lines 384-397.
FormatReassemble ==
    /\ fmt.pc = "fetchAll"
    /\ AllSettled(fmt.responses)
    /\ fmt' = IF BatchFailures(fmt.responses) # {}
              THEN [fmt EXCEPT !.pc = "threw", !.error = BatchError(fmt.responses)]
              ELSE LET all == PushAll(BatchResults(fmt.responses), 1, <<>>)
                   IN IF all.ok
                      THEN [fmt EXCEPT !.pc = "returned",
                                       !.out = [sections |-> all.sections,
                                                fullText |-> RenderFullText(all.sections)]]
                      ELSE [fmt EXCEPT !.pc = "threw",
                                       !.error = [kind |-> "type", code |-> 0, at |-> all.at]]
    /\ UNCHANGED <<pipelineVars, splitVars, apiKey, call, parseVars>>

InitFormat ==
    /\ PipelineIdle
    /\ text \in FormatTexts
    /\ splitPc = "ready"
    /\ split = SplitStart
    /\ apiKey \in BOOLEAN
    /\ call = CallIdle
    /\ fmt = FmtEntered
    /\ result = <<>>
    /\ parsed = ParseIdle

NextFormat ==
    \/ FormatStartSingle
    \/ CallNoKey \/ CallEnterLoop \/ CallReturns \/ CallFails \/ CallExhausted
    \/ FormatSingleThrows
    \/ FormatSingleFinish
    \/ FormatStartMulti
    \/ FetchAllSettles
    \/ FetchAllThrows
    \/ FormatReassemble

SpecFormat == InitFormat /\ [][NextFormat]_vars

\* ------------------------------------------------------- splitter claims
\* C1: when splitTextIntoChunks has returned, the chunks concatenated in
\* index order are the input text, character for character.
C1_LosslessPartition ==
    splitPc = "done" => Concat(split.chunks) = text

\* A split into three chunks in which an adjusted boundary ran past the end
\* of the text.
C1_Witness ==
    /\ splitPc = "done"
    /\ Len(split.chunks) >= 3
    /\ \E k \in 1..Len(split.ends) : split.ends[k] > Len(text)
    /\ Concat(split.chunks) = text

\* C2: for a non-empty text every returned chunk is non-empty.
C2_NoEmptyChunks ==
    (splitPc = "done" /\ text # <<>>) =>
        \A k \in 1..Len(split.chunks) : split.chunks[k] # <<>>

\* C8: the chunk boundaries never decrease, each lies within
\* [0, len(text)], and the last chunk of a finished split ends at len(text).
C8_BoundariesMonotoneInRange ==
    /\ \A k \in 1..Len(split.ends) :
          /\ 0 <= split.ends[k] /\ split.ends[k] <= Len(text)
          /\ k > 1 => split.ends[k - 1] <= split.ends[k]
    /\ (splitPc = "done" /\ split.ends # <<>>) =>
          split.ends[Len(split.ends)] = Len(text)

\* ----------------------------------------------------- callClaude claims
FetchIndexes == {k \in 1..Len(call.events) : call.events[k].ev = "fetch"}
NumFetches == Cardinality(FetchIndexes)

\* C3: a response with a non-retryable 4xx status ends the call: no wait
\* and no further attempt follows it (so a 4xx on the first attempt means
\* exactly 1 attempt).
C3_ClientErrorSingleAttempt ==
    \A k \in FetchIndexes :
        (call.events[k].kind = "response" /\ IsClientError(call.events[k].code))
            => k = Len(call.events)

IsRetryableFailure(e) ==
    \/ e.kind = "exception"
    \/ e.kind = "response" /\ (e.code >= 500 \/ e.code = 429)

\* C4: there is never a 4th attempt, and a call whose attempts all failed
\* retryably ends with an error after exactly 3 attempts.
C4_RetryCeiling ==
    /\ NumFetches <= 3
    /\ (/\ call.pc \in {"returned", "threw"}
        /\ apiKey
        /\ \A k \in FetchIndexes : IsRetryableFailure(call.events[k]))
       => (call.pc = "threw" /\ NumFetches = 3 /\ call.error # NoError)

\* A 500, a 429 and a transport exception, then the error.
C4_Witness ==
    /\ call.pc = "threw"
    /\ NumFetches = 3
    /\ \E k \in FetchIndexes : call.events[k].code = 500
    /\ \E k \in FetchIndexes : call.events[k].code = 429
    /\ \E k \in FetchIndexes : call.events[k].kind = "exception"

\* C5: every wait directly follows a failed attempt 1 or 2, lasts 2000 ms
\* after attempt 1 and 4000 ms after attempt 2, and is followed by the next
\* attempt; every failed attempt before the 3rd is followed by its wait;
\* nothing precedes the first attempt and nothing follows a successful or a
\* 3rd attempt.
C5_BackoffSchedule ==
    LET e == call.events
    IN \A k \in 1..Len(e) :
         /\ e[k].ev = "sleep" =>
               /\ k > 1
               /\ e[k - 1].ev = "fetch" /\ ~e[k - 1].ok
               /\ e[k - 1].attempt = e[k].attempt
               /\ e[k].attempt \in {1, 2}
               /\ e[k].ms = (IF e[k].attempt = 1 THEN 2000 ELSE 4000)
               /\ k < Len(e) => (e[k + 1].ev = "fetch" /\ e[k + 1].attempt = e[k].attempt + 1)
         /\ e[k].ev = "fetch" =>
               /\ (k = 1) <=> (e[k].attempt = 1)
               /\ k > 1 => e[k - 1].ev = "sleep"
               /\ (e[k].ok \/ e[k].attempt = 3) => k = Len(e)
               /\ (~e[k].ok /\ e[k].attempt < 3) => (k < Len(e) /\ e[k + 1].ev = "sleep")

\* Three attempts with both waits between them.
C5_Witness ==
    /\ Len(call.events) = 5
    /\ call.events[2].ev = "sleep" /\ call.events[2].ms = 2000
    /\ call.events[4].ev = "sleep" /\ call.events[4].ms = 4000
    /\ call.events[5].ev = "fetch" /\ call.events[5].ok

\* ---------------------------------------------------------- parser claims
NoJsonSpan(r) ==
    ~\E i \in 1..Len(r) : \E j \in 1..Len(r) : i < j /\ r[i] = "{" /\ r[j] = "}"

\* C7: for a result without a "{" ... "}" span parseFormatResult returns
\* exactly one Section, whose content is the result verbatim.
C7_FallbackOnNonJson ==
    (parsed.pc = "returned" /\ NoJsonSpan(result)) =>
        /\ parsed.out.defined
        /\ Len(parsed.out.sections) = 1
        /\ parsed.out.sections[1].content = result

\* A result with braces in it, but no span: the "}" comes before the "{".
C7_Witness ==
    /\ parsed.pc = "returned"
    /\ result = <<"}", "x", "{", "x">>
    /\ parsed.out.sections = <<Section(FormatErrorTitle, result)>>

\* ------------------------------------------------ formatTranscript claims
FormatFinished == fmt.pc \in {"returned", "threw"}
IsMulti == Len(fmt.chunks) > 1

\* Every generation request of the invocation was answered with a result.
GenerationSucceeded ==
    IF IsMulti
    THEN /\ fmt.responses # <<>>
         /\ \A k \in 1..Len(fmt.responses) : AttemptReturns(fmt.responses[k])
    ELSE call.pc = "returned"

\* C6: when generation succeeded, formatTranscript returns a
\* FormattedTranscript whatever the result texts are: a failed structure
\* extraction is never an error.
C6_ExtractionFailureNeverThrows ==
    (FormatFinished /\ GenerationSucceeded) => fmt.pc = "returned"

RECURSIVE SumLen(_, _)
SumLen(f, k) == IF k = 0 THEN 0 ELSE Len(f[k]) + SumLen(f, k - 1)

\* C9: the sections returned by a multi-chunk formatTranscript are those of
\* chunk 1, then chunk 2, ..., each in the order its response lists them,
\* whatever the completion order was.
C9_ReassemblyInChunkOrder ==
    (fmt.pc = "returned" /\ IsMulti) =>
        LET per == [k \in 1..Len(fmt.responses) |->
                      parseFormatResult(fmt.responses[k].text).sections]
        IN /\ Len(fmt.out.sections) = SumLen(per, Len(fmt.responses))
           /\ \A k \in 1..Len(fmt.responses) : \A j \in 1..Len(per[k]) :
                 fmt.out.sections[SumLen(per, k - 1) + j] = per[k][j]

\* Three chunks completed in reverse order, with different sections.
C9_Witness ==
    /\ fmt.pc = "returned"
    /\ fmt.order = <<3, 2, 1>>
    /\ fmt.responses[1].text = <<"{", "Sa", "}">>
    /\ fmt.responses[2].text = <<"x">>
    /\ fmt.responses[3].text = <<"x", "{", "Sb", "}", "x">>
    /\ fmt.out.sections = <<Section(<<"ta1">>, <<"ca1">>), Section(<<"ta2">>, <<"ca2">>),
                            Section(FormatErrorTitle, <<"x">>),
                            Section(<<"tb1">>, <<"cb1">>)>>

NonSuccess(o) == o.kind = "response" /\ o.code # 200

\* C10: once a chunk request of a multi-chunk formatTranscript has ended in
\* a non-success, formatTranscript does not return and yields no document;
\* when it finishes, it has thrown.
C10_AllOrNothing ==
    (IsMulti /\ \E k \in 1..Len(fmt.responses) : NonSuccess(fmt.responses[k])) =>
        /\ fmt.pc \in {"fetchAll", "threw"}
        /\ fmt.out = NoOutput

\* Two chunks answered with sections and one with a 500: the batch error.
C10_Witness ==
    /\ fmt.pc = "threw"
    /\ fmt.error = [kind |-> "batch", code |-> 500, at |-> 2]
    /\ Len(fmt.responses) = 3
    /\ AttemptReturns(fmt.responses[1]) /\ AttemptReturns(fmt.responses[3])
    /\ fmt.out = NoOutput

\* -------------------------------------------- retry on the dispatch paths
Occurrences(seq, x) == Cardinality({k \in 1..Len(seq) : seq[k] = x})

IsRetryableResponse(o) ==
    o.kind = "response" /\ (o.code >= 500 \/ o.code = 429)

\* C11: when a multi-chunk formatTranscript fails on a retryable response
\* (429 or 5xx) of a chunk request, that request was attempted 3 times.
C11_BatchRequestsRetried ==
    (/\ fmt.pc = "threw"
     /\ IsMulti
     /\ fmt.error.kind = "batch"
     /\ fmt.error.code >= 500 \/ fmt.error.code = 429)
        => Occurrences(fmt.order, fmt.error.at) = 3

\* C11 as amended: a chunk request of a multi-chunk formatTranscript is sent
\* once, with no backoff wait, and a retryable response to it fails the
\* formatting; on the single-chunk path a retryable failure fails the
\* formatting only after 3 attempts.
C11_BatchSentOnceSingleRetried ==
    /\ IsMulti =>
         /\ \A k \in 1..Len(fmt.responses) : Occurrences(fmt.order, k) <= 1
         /\ call.events = <<>>
         /\ (\E k \in 1..Len(fmt.responses) : IsRetryableResponse(fmt.responses[k]))
               => fmt.pc \in {"fetchAll", "threw"}
         /\ FormatFinished /\ fmt.error.kind \in {"batch", "parse", "type", "none"}
               => \A k \in 1..Len(fmt.responses) : Occurrences(fmt.order, k) = 1
    /\ (/\ ~IsMulti
        /\ fmt.pc = "threw"
        /\ fmt.error.kind \in {"http", "exception"})
          => NumFetches = 3

\* A 3-chunk transcript failed by a 429 to its last request, sent once.
C11_Witness ==
    /\ fmt.pc = "threw"
    /\ Len(fmt.responses) = 3
    /\ fmt.error = [kind |-> "batch", code |-> 429, at |-> 3]
    /\ Occurrences(fmt.order, 3) = 1
    /\ AttemptReturns(fmt.responses[1]) /\ AttemptReturns(fmt.responses[2])

\* --------------------------------------------------- short-input passthrough
\* C12: for a text no longer than the threshold (the empty text and a text
\* of exactly the threshold length included) splitTextIntoChunks returns
\* exactly one chunk, the text itself.
C12_ShortInputPassthrough ==
    (splitPc = "done" /\ Len(text) <= FORMAT_CHUNK_THRESHOLD) =>
        (Len(split.chunks) = 1 /\ split.chunks[1] = text)

\* A text of exactly the threshold length, returned whole.
C12_Witness ==
    /\ splitPc = "done"
    /\ Len(text) = FORMAT_CHUNK_THRESHOLD
    /\ \E k \in 1..Len(text) : IsTerminator(text[k])
    /\ split.chunks = <<text>>

\* ----------------------------------------- findSentenceBoundary on its own
\* The scan is applied to every text up to MaxScanLen, at every target
\* position up to one past the end of the text (splitTextIntoChunks passes
\* such targets), for every window width up to MaxWindow; the source's
\* width is 500.
InitBoundary ==
    /\ text \in {t \in Texts : Len(t) <= MaxScanLen}
    /\ splitPc = "ready"
    /\ split = SplitStart
    /\ apiKey = TRUE
    /\ call = CallIdle
    /\ fmt = FmtIdle
    /\ result = <<>>
    /\ parsed = ParseIdle
    /\ scan \in {[pc |-> "entered", p |-> p, window |-> w, result |-> 0] :
                    p \in 0..(MaxScanLen + 1), w \in 1..MaxWindow}
    /\ scan.p <= Len(text) + 1
    /\ ep = EpIdle
    /\ main = MainIdle
    /\ tr = TrIdle
    /\ ToolsIdle

\* lines 258-267
FindBoundary ==
    /\ scan.pc = "entered"
    /\ scan' = [scan EXCEPT !.pc = "returned",
                            !.result = ScanBoundary(text, scan.p, scan.window)]
    /\ UNCHANGED <<splitVars, apiKey, call, fmt, parseVars, ep, main, tr, toolVars>>

NextBoundary == FindBoundary

SpecBoundary == InitBoundary /\ [][NextBoundary]_vars

\* The positions of the window of a scan (0-based, clipped to the text).
WindowPositions ==
    {i \in 0..(Len(text) - 1) : scan.p <= i /\ i < scan.p + scan.window}
TerminatorsInWindow == {i \in WindowPositions : IsTerminator(text[i + 1])}

\* C13: the scan never returns less than the target position, and it
\* returns the target position exactly when no character of the window is a
\* terminator.
C13_BoundaryNeverBackward ==
    scan.pc = "returned" =>
        /\ scan.result >= scan.p
        /\ TerminatorsInWindow = {} => scan.result = scan.p

\* No terminator in a window of 2, with terminators just before and just
\* after it.
C13_Witness ==
    /\ scan.pc = "returned"
    /\ text = <<".", "a", "a", ".">>
    /\ scan.p = 1 /\ scan.window = 2
    /\ scan.result = 1

\* C14: when the window holds a terminator, the scan returns the index after
\* the first one, which is at most min(len(text), target + window).
C14_FirstTerminatorInWindow ==
    (scan.pc = "returned" /\ TerminatorsInWindow # {}) =>
        /\ \E i \in TerminatorsInWindow :
              /\ \A j \in TerminatorsInWindow : i <= j
              /\ scan.result = i + 1
        /\ scan.result <= Min(Len(text), scan.p + scan.window)

\* Two terminators in a window of 3, the first of them not at the target.
C14_Witness ==
    /\ scan.pc = "returned"
    /\ text = <<"a", "a", "\n", ".", "a">>
    /\ scan.p = 1 /\ scan.window = 3
    /\ scan.result = 3

\* ------------------------------------------------ the result of callClaude
LastFetch == call.events[CHOOSE k \in FetchIndexes : \A j \in FetchIndexes : j <= k]

\* The error raised is the one of the last attempt made.
RaisesLastError ==
    (call.pc = "threw" /\ FetchIndexes # {}) =>
        /\ call.error.at = LastFetch.attempt
        /\ call.error.code = LastFetch.code
        /\ (call.error.kind = "exception") <=> (LastFetch.kind = "exception")
        /\ call.error.kind \in {"exception", "http", "parse"}

\* C15: a failed call raises the error of its last attempt, and an attempt
\* that gets a 200 response is the last one and its text is returned.
C15_LastErrorOr200Text ==
    /\ RaisesLastError
    /\ \A k \in FetchIndexes :
          (call.events[k].kind = "response" /\ call.events[k].code = 200) =>
              /\ k = Len(call.events)
              /\ call.pc = "returned"
              /\ call.result = call.events[k].text

\* C15 as amended: a failed call raises the error of its last attempt; an
\* attempt that gets a 200 response whose body parses is the last one and
\* its text is returned; a 200 response whose body does not parse is a
\* failed attempt like any other.
C15_LastErrorOrParsed200Text ==
    /\ RaisesLastError
    /\ \A k \in FetchIndexes :
          /\ call.events[k].ok =>
                /\ k = Len(call.events)
                /\ call.pc = "returned"
                /\ call.result = call.events[k].text
          /\ (call.events[k].code = 200 /\ ~call.events[k].ok) =>
                /\ call.events[k].attempt < maxRetries =>
                      (k < Len(call.events) /\ call.events[k + 1].ev = "sleep")
                /\ (call.events[k].attempt = maxRetries /\ call.pc = "threw") =>
                      call.error = [kind |-> "parse", code |-> 200, at |-> maxRetries]

\* Three attempts failing differently: the 429 of the third is raised.
C15_Witness ==
    /\ call.pc = "threw"
    /\ NumFetches = 3
    /\ call.events[1].code = 500
    /\ call.events[3].code = 200 /\ ~call.events[3].ok
    /\ call.events[5].code = 429
    /\ call.error = [kind |-> "http", code |-> 429, at |-> 3]

\* ---------------------------------------------- translation (section 4.6)
\* The target language of every document.
TargetLanguage == "ja"
Languages == {"ja", "en"}

\* Target size of a translation chunk: 10000 in the specification, scaled
\* like FORMAT_CHUNK_THRESHOLD.
TranslateChunkTarget == 2

\* Pieces of two characters, wherever the line breaks are.
Lines_FixedWidth(t) ==
    [k \in 1..CeilDiv(Len(t), 2) |-> SubSeq(t, 2 * k - 1, Min(2 * k, Len(t)))]

\* The lines of a text, each with its line break.
RECURSIVE LinesFrom(_, _, _)
LinesFrom(t, k, cur) ==
    IF k > Len(t) THEN (IF cur = <<>> THEN <<>> ELSE <<cur>>)
    ELSE IF t[k] = "\n" THEN <<Append(cur, t[k])>> \o LinesFrom(t, k + 1, <<>>)
    ELSE LinesFrom(t, k + 1, Append(cur, t[k]))
Lines(t) == LinesFrom(t, 1, <<>>)

\* Whole lines are accumulated until the next one would exceed the target.
RECURSIVE LineChunksFrom(_, _, _)
LineChunksFrom(ls, k, cur) ==
    IF k > Len(ls) THEN (IF cur = <<>> THEN <<>> ELSE <<cur>>)
    ELSE IF cur # <<>> /\ Len(cur) + Len(ls[k]) > TranslateChunkTarget
         THEN <<cur>> \o LineChunksFrom(ls, k + 1, ls[k])
         ELSE LineChunksFrom(ls, k + 1, cur \o ls[k])
splitTextByLines(t) == LineChunksFrom(Lines(t), 1, <<>>)

\* What the generation service makes of one chunk: every character is
\* re-expressed, line breaks are kept.
TranslateChar(c) == IF c = "\n" THEN c ELSE "J"
TranslateChunk(c) == [k \in 1..Len(c) |-> TranslateChar(c[k])]

BlankLine == <<"\n\n">>
RECURSIVE JoinTranslated(_, _)
JoinTranslated(chunks, k) ==
    IF k > Len(chunks) THEN <<>>
    ELSE TranslateChunk(chunks[k])
         \o (IF k < Len(chunks) THEN BlankLine ELSE <<>>)
         \o JoinTranslated(chunks, k + 1)

\* The translating branch: one call per line chunk, all or nothing.
translateByChunks(t, lang, failed) ==
    LET chunks == splitTextByLines(t) IN
    [calls |-> Len(chunks),
     chunks |-> chunks,
     threw |-> failed \cap (1..Len(chunks)) # {},
     text  |-> IF failed \cap (1..Len(chunks)) # {} THEN <<>>
               ELSE JoinTranslated(chunks, 1)]

\* translate(text, sourceLanguage): the identity when the source language is
\* the target language; otherwise one generation call per line chunk, the
\* results joined in order. failed is the set of chunk indexes whose call
\* fails; any of them fails the translation.
translateToJapanese(t, lang, failed) ==
    IF lang = TargetLanguage
    THEN [calls |-> 0, chunks |-> <<>>, threw |-> FALSE, text |-> t]
    ELSE translateByChunks(t, lang, failed)

\* ------------------------------------- processEpisode (index.ts 15-59)
EpTexts == {<<"a">>, <<"a", "\n", "a", "a">>}
TrTexts == UNION {[1..n -> {"a", "\n"}] : n \in 0..3}
FailSets == {{}, {1}, {2}}

\* A pipeline that translates whatever the language.
ShouldTranslate_Always(lang) == TRUE

\* index.ts line 36
ShouldTranslate(lang) == lang # "ja"

\* markdown.ts line 62
needsTranslation(lang, translated) == lang # "ja" /\ translated.defined

InitEpisode ==
    /\ text = <<>>
    /\ splitPc = "ready"
    /\ split = SplitStart
    /\ apiKey = TRUE
    /\ call = CallIdle
    /\ fmt = FmtIdle
    /\ result = <<>>
    /\ parsed = ParseIdle
    /\ scan = ScanIdle
    /\ main = MainIdle
    /\ ToolsIdle
    /\ ep \in {EpFresh(lang) : lang \in Languages}
    /\ tr \in {[TrIdle EXCEPT !.pc = "entered", !.text = t, !.sourceLanguage = lang] :
                  t \in TrTexts, lang \in Languages}

EpUnchanged == UNCHANGED <<splitVars, apiKey, call, fmt, parseVars, scan, main, toolVars>>

\* line 22: transcribeWithRetry returns the transcript
EpTranscribe ==
    /\ ep.pc = "transcribe"
    /\ \E t \in EpTexts : ep' = [ep EXCEPT !.pc = "format", !.transcript = t]
    /\ UNCHANGED tr /\ EpUnchanged

\* line 27: formatTranscript returns the formatted document
EpFormat ==
    /\ ep.pc = "format"
    /\ \E t \in EpTexts : ep' = [ep EXCEPT !.pc = "summarize", !.fullText = t]
    /\ UNCHANGED tr /\ EpUnchanged

\* lines 32-36: the two summaries, then the language test
EpSummarize ==
    /\ ep.pc = "summarize"
    /\ \E a \in EpTexts, b \in EpTexts :
          ep' = [ep EXCEPT !.pc = IF ShouldTranslate(ep.sourceLanguage)
                                  THEN "translate" ELSE "write",
                           !.summary400 = a, !.summary2000 = b]
    /\ UNCHANGED tr /\ EpUnchanged

\* lines 38-50: three translations awaited together
EpTranslate ==
    /\ ep.pc = "translate"
    /\ \E f1 \in FailSets, f2 \in FailSets, f3 \in FailSets :
          LET r1 == translateToJapanese(ep.summary400, ep.sourceLanguage, f1)
              r2 == translateToJapanese(ep.summary2000, ep.sourceLanguage, f2)
              r3 == translateToJapanese(ep.fullText, ep.sourceLanguage, f3)
              n  == r1.calls + r2.calls + r3.calls
          IN  IF r1.threw \/ r2.threw \/ r3.threw
              THEN ep' = [ep EXCEPT !.pc = "threw", !.failedAt = "translate",
                                    !.translateInvocations = 3,
                                    !.generationCalls = n]
              ELSE ep' = [ep EXCEPT !.pc = "write",
                                    !.translateInvocations = 3,
                                    !.generationCalls = n,
                                    !.translated =
                                        [defined |-> TRUE,
                                         summary400 |-> r1.text,
                                         summary2000 |-> r2.text,
                                         fullText |-> r3.text]]
    /\ UNCHANGED tr /\ EpUnchanged

\* line 55 and markdown.ts 48-129: the document is written from the
\* translated texts when there are any, from the original ones otherwise
EpWrite ==
    /\ ep.pc = "write"
    /\ LET useT == needsTranslation(ep.sourceLanguage, ep.translated)
           src  == IF useT THEN ep.translated ELSE ep
       IN  ep' = [ep EXCEPT !.pc = "done",
                            !.md = [written |-> TRUE, usesTranslated |-> useT,
                                    summary400 |-> src.summary400,
                                    summary2000 |-> src.summary2000,
                                    fullText |-> src.fullText]]
    /\ UNCHANGED tr /\ EpUnchanged

\* transcription, formatting, summarising or writing throws
EpStageThrows ==
    /\ ep.pc \in {"transcribe", "format", "summarize", "write"}
    /\ ep' = [ep EXCEPT !.pc = "threw", !.failedAt = ep.pc]
    /\ UNCHANGED tr /\ EpUnchanged

\* translateToJapanese called on its own
TranslateApply ==
    /\ tr.pc = "entered"
    /\ \E f \in FailSets :
          LET r == translateToJapanese(tr.text, tr.sourceLanguage, f)
          IN  tr' = [tr EXCEPT !.pc = IF r.threw THEN "threw" ELSE "returned",
                               !.out = r.text, !.calls = r.calls,
                               !.chunks = r.chunks]
    /\ UNCHANGED ep /\ EpUnchanged

NextEpisode ==
    \/ EpTranscribe
    \/ EpFormat
    \/ EpSummarize
    \/ EpTranslate
    \/ EpWrite
    \/ EpStageThrows
    \/ TranslateApply

SpecEpisode == InitEpisode /\ [][NextEpisode]_vars

\* C16: translating a text whose source language is the target language
\* returns it unchanged with no generation call; an episode whose source
\* language is "ja" invokes no translation, issues no translation call,
\* produces no TranslatedContent and is written from its original texts.
C16_TranslationIdentity ==
    /\ (tr.pc # "entered" /\ tr.sourceLanguage = "ja") =>
          (tr.pc = "returned" /\ tr.out = tr.text /\ tr.calls = 0)
    /\ ep.sourceLanguage = "ja" =>
          /\ ep.translateInvocations = 0
          /\ ep.generationCalls = 0
          /\ ~ep.translated.defined
          /\ ep.pc # "translate"
          /\ ep.md.written =>
                (~ep.md.usesTranslated /\ ep.md.fullText = ep.fullText
                 /\ ep.md.summary400 = ep.summary400
                 /\ ep.md.summary2000 = ep.summary2000)

\* A Japanese episode written to the end beside a direct translation of a
\* multi-line Japanese text.
C16_Witness ==
    /\ ep.sourceLanguage = "ja" /\ ep.pc = "done" /\ ep.md.written
    /\ tr.sourceLanguage = "ja" /\ tr.pc = "returned"
    /\ tr.text = <<"a", "\n", "a">>


\* ------------------------------------------------ chunk count and dispatch
FormatDispatched == fmt.pc \notin {"idle", "entered"}

\* ceil(len / threshold), from its defining inequalities
ExpectedChunks(len) ==
    CHOOSE n \in 0..len :
        n * FORMAT_CHUNK_THRESHOLD >= len /\ (n - 1) * FORMAT_CHUNK_THRESHOLD < len

\* C17: a text longer than the threshold is split into exactly
\* ceil(len / threshold) chunks, and formatTranscript makes one request per
\* chunk, the request of chunk i (counted from 1) marked "part i of n" and
\* carrying that chunk; with an API key every one of them is sent.
C17_ChunkCountAndDispatch ==
    (FormatDispatched /\ Len(text) > FORMAT_CHUNK_THRESHOLD) =>
        LET n == ExpectedChunks(Len(text)) IN
        /\ Len(splitTextIntoChunks(text)) = n
        /\ fmt.chunks = splitTextIntoChunks(text)
        /\ Len(fmt.requests) = n
        /\ \A k \in 1..n :
              /\ fmt.requests[k].partInfo = <<k, n>>
              /\ fmt.requests[k].userMessage = fmt.chunks[k]
        /\ apiKey => DOMAIN fmt.responses = 1..n

\* Seven characters at threshold three (25,000 at 12,000 in the source):
\* three chunks, three requests, the last one "part 3 of 3", all answered.
C17_Witness ==
    /\ Len(text) = 2 * FORMAT_CHUNK_THRESHOLD + 1
    /\ fmt.pc = "returned"
    /\ Len(fmt.requests) = 3
    /\ fmt.requests[3].partInfo = <<3, 3>>
    /\ \A k \in 1..3 : fmt.responses[k] # Pending


\* ------------------------------------------------- fullText and sections
\* The blocks of a document with the divider between neighbours: block k at
\* position 2k - 1, the divider at every even position.
BlocksAndDividers(sections) ==
    [j \in 1..(2 * Len(sections) - 1) |->
        IF j % 2 = 1
        THEN <<"## ">> \o sections[(j + 1) \div 2].title \o <<"\n\n">>
                       \o sections[(j + 1) \div 2].content
        ELSE <<"\n\n---\n\n">>]

\* C18: the fullText of every returned FormattedTranscript, on either path,
\* is its own sections rendered in order, one "## title / content" block per
\* section, joined by the divider: k >= 1 sections, k - 1 dividers.
C18_FullTextRendersSections ==
    fmt.pc = "returned" =>
        LET k == Len(fmt.out.sections) IN
        /\ k >= 1 => fmt.out.fullText = Concat(BlocksAndDividers(fmt.out.sections))
        /\ k >= 1 => Occurrences(fmt.out.fullText, "\n\n---\n\n") = k - 1
        /\ k = 0 => fmt.out.fullText = <<>>
        /\ Occurrences(fmt.out.fullText, "## ") = k

\* Three chunks of two sections each: six sections, five dividers.
C18_Witness ==
    /\ fmt.pc = "returned"
    /\ Len(fmt.chunks) = 3
    /\ Len(fmt.out.sections) = 6
    /\ Occurrences(fmt.out.fullText, "\n\n---\n\n") = 5


\* ------------------------- main (index.ts 61-158, import script 60-146)
\* Array.prototype.filter over the indexes k..n of a list: those in keep,
\* in list order
RECURSIVE FilterIndexes(_, _, _)
FilterIndexes(n, k, keep) ==
    IF k > n THEN <<>>
    ELSE (IF k \in keep THEN <<k>> ELSE <<>>) \o FilterIndexes(n, k + 1, keep)

\* The two programs that process episodes under a limit.
Programs == {"main", "import"}

\* pLimit(5) in main, pLimit(3) in the past-episode import.
MainConcurrency == 5
ImportConcurrency == 3
Concurrency(program) ==
    IF program = "main" THEN MainConcurrency ELSE ImportConcurrency

\* The configured podcasts and their languages.
Feeds == {1, 2}
FeedLanguage(feed) == IF feed = 1 THEN "en" ELSE "ja"

QueuedTask(feed) == [feed |-> feed, status |-> "queued"]

\* How one processEpisode invocation ends: "done", or the stage that threw.
\* The import's processEpisode has no translation stage.
EpisodeOutcomes(program, lang) ==
    {"done", "transcribe", "format", "summarize", "write"}
        \cup (IF program = "main" /\ ShouldTranslate(lang) THEN {"translate"} ELSE {})

\* A task wrapper without the try/catch: the error leaves the wrapper.
TaskResult_Rethrows(outcome) == IF outcome = "done" THEN "ok" ELSE "rejected"

\* index.ts 110-116, import script 112-118: the wrapper returns the
\* processed episode, or null when processEpisode threw.
TaskResult(outcome) == IF outcome = "done" THEN "ok" ELSE "failed"

\* A limiter that lets one task too many in.
CanStart_OneMore(active, concurrency) == active <= concurrency

\* p-limit: a queued function starts only while fewer than `concurrency`
\* are active.
CanStart(active, concurrency) == active < concurrency

TasksWith(status) == {i \in DOMAIN main.tasks : main.tasks[i].status = status}
Running == Cardinality(TasksWith("running"))

\* state/last-checked.json: per feed the stored timestamp, 0 when the feed
\* was never checked (config 41-45).
StoredTimes == {0, 10}

\* Podcast Index returns the episodes published since lastChecked, sorted
\* newest first (podcastIndex 79-110): the tasks of a feed, later ones
\* older, all newer than the stored time.
PubDateMs(i) ==
    LET f == main.tasks[i].feed
    IN  st.before[f]
          + Cardinality({j \in DOMAIN main.tasks : main.tasks[j].feed = f /\ j >= i})

\* A map that keeps the oldest processed episode of a feed.
RECURSIVE LatestByFeed_Oldest(_, _, _)
LatestByFeed_Oldest(processed, k, latest) ==
    IF k > Len(processed) THEN latest
    ELSE LET i == processed[k]
             f == main.tasks[i].feed
         IN  LatestByFeed_Oldest(processed, k + 1,
                 IF latest[f] = 0 \/ PubDateMs(i) < latest[f]
                 THEN [latest EXCEPT ![f] = PubDateMs(i)] ELSE latest)

\* index.ts 124-130: the loop over the processed episodes; latest[f] = 0
\* stands for a feed without an entry in the map.
RECURSIVE LatestByFeed(_, _, _)
LatestByFeed(processed, k, latest) ==
    IF k > Len(processed) THEN latest
    ELSE LET i == processed[k]
             f == main.tasks[i].feed
         IN  LatestByFeed(processed, k + 1,
                 IF PubDateMs(i) > latest[f]
                 THEN [latest EXCEPT ![f] = PubDateMs(i)] ELSE latest)

\* index.ts 131-133 with config 47-51: setLastChecked for every entry of
\* the map.
StoreLatest(lastChecked, latest) ==
    [f \in DOMAIN lastChecked |-> IF latest[f] # 0 THEN latest[f] ELSE lastChecked[f]]

InitMain ==
    /\ text = <<>>
    /\ splitPc = "ready"
    /\ split = SplitStart
    /\ apiKey = TRUE
    /\ call = CallIdle
    /\ fmt = FmtIdle
    /\ result = <<>>
    /\ parsed = ParseIdle
    /\ scan = ScanIdle
    /\ ep = EpIdle
    /\ tr = TrIdle
    /\ imp = ImpIdle /\ mig = MigIdle /\ tx = TxIdle
    /\ st \in {[before |-> <<a, b>>, lastChecked |-> <<a, b>>] :
                  a \in StoredTimes, b \in StoredTimes}
    /\ main \in {[MainIdle EXCEPT !.pc = "start", !.program = p] : p \in Programs}
    \* the import neither reads nor writes the stored times
    /\ main.program = "import" => st.before = <<0, 0>>

MainUnchanged ==
    UNCHANGED <<splitVars, apiKey, call, fmt, parseVars, scan, ep, tr, imp, mig, tx>>

\* index.ts 72-101: the new episodes of every podcast are pushed podcast by
\* podcast; import script 86-104: the episodes of one podcast. With nothing
\* to process the program returns at once.
MainCollect ==
    /\ main.pc = "start"
    /\ \E n1 \in 0..MaxEpisodes, n2 \in 0..MaxEpisodes :
          /\ n1 + n2 <= MaxEpisodes
          /\ main.program = "import" => (n1 = 0 \/ n2 = 0)
          /\ (main.program = "main" /\ st.lastChecked[1] = 0) => n1 <= 1
          /\ (main.program = "main" /\ st.lastChecked[2] = 0) => n2 <= 1
          /\ main' = [main EXCEPT
                        !.pc = IF n1 + n2 = 0 THEN "finished" ELSE "processing",
                        !.tasks = [k \in 1..(n1 + n2) |->
                                     QueuedTask(IF k <= n1 THEN 1 ELSE 2)]]
    /\ UNCHANGED st
    /\ MainUnchanged

\* The limiter starts the function at the head of its queue.
TaskStart ==
    /\ main.pc = "processing"
    /\ TasksWith("queued") # {}
    /\ CanStart(Running, Concurrency(main.program))
    /\ LET i == SetMin(TasksWith("queued"))
       IN main' = [main EXCEPT !.tasks[i].status = "running"]
    /\ UNCHANGED st
    /\ MainUnchanged

\* The processEpisode of a running task ends; an error the wrapper lets
\* through rejects Promise.all and main ends in main().catch.
TaskSettle(i, outcome) ==
    /\ main.pc = "processing"
    /\ i \in TasksWith("running")
    /\ outcome \in EpisodeOutcomes(main.program, FeedLanguage(main.tasks[i].feed))
    /\ main' = [main EXCEPT
                  !.tasks[i].status = TaskResult(outcome),
                  !.pc = IF TaskResult(outcome) = "rejected" THEN "fatal" ELSE @]
    /\ UNCHANGED st
    /\ MainUnchanged

TaskSettles ==
    \E i \in 1..MaxEpisodes :
        \E outcome \in {"done", "transcribe", "format", "summarize", "translate", "write"} :
            TaskSettle(i, outcome)

\* index.ts 107-133, import script 109-123: Promise.all resolves once every
\* task has settled; the non-null results are the processed episodes, in
\* task order; main then stores the newest of them per feed.
MainFinish ==
    /\ main.pc = "processing"
    /\ TasksWith("queued") = {} /\ TasksWith("running") = {}
    /\ main' = [main EXCEPT !.pc = "finished", !.processed = TasksWith("ok")]
    /\ LET processed == FilterIndexes(Len(main.tasks), 1, TasksWith("ok"))
           latest    == LatestByFeed(processed, 1, <<0, 0>>)
       IN  st' = IF main.program = "main"
                 THEN [st EXCEPT !.lastChecked = StoreLatest(@, latest)]
                 ELSE st
    /\ MainUnchanged

NextMain ==
    \/ MainCollect
    \/ TaskStart
    \/ TaskSettles
    \/ MainFinish

SpecMain == InitMain /\ [][NextMain]_vars

\* The program runs on: every started processEpisode settles, and the
\* limiter starts the next queued function as soon as it may. Every feed was
\* checked before, which allows every list of tasks the other stored times
\* allow.
InitMainFair ==
    /\ InitMain
    /\ main.program = "main" => st.before = <<10, 10>>

SpecMainFair == InitMainFair /\ [][NextMain]_vars /\ WF_vars(NextMain)

NoEpisodeAbortsTheRun ==
    /\ main.pc # "fatal"
    /\ \A i \in DOMAIN main.tasks : main.tasks[i].status # "rejected"
    /\ (main.pc = "finished") =>
          /\ \A i \in DOMAIN main.tasks : main.tasks[i].status \in {"ok", "failed"}
          /\ main.processed = TasksWith("ok")

\* C19: an episode whose processing fails, at whatever stage, does not abort
\* the run: main never ends in error because of it, every collected episode
\* runs to its end, main finishes normally, and the episodes it reports as
\* processed are exactly the ones that did not fail.
C19_FailureIsolation ==
    /\ []NoEpisodeAbortsTheRun
    /\ <>(main.pc = "finished")

\* A run of main over six episodes, some of them in English, that finished
\* with the first and the last one failed and all the others processed.
C19_Witness ==
    /\ main.program = "main"
    /\ main.pc = "finished"
    /\ Len(main.tasks) = 6
    /\ main.tasks[1].feed = 1
    /\ main.tasks[1].status = "failed"
    /\ main.tasks[6].status = "failed"
    /\ main.processed = 2..5


\* C20: at every moment at most 5 episodes are being processed in main and
\* at most 3 in the past-episode import, however many were collected, and
\* every collected episode is eventually started.
WithinCeiling ==
    /\ main.program = "main" => Running <= 5
    /\ main.program = "import" => Running <= 3

C20_CeilingAndEventualStart ==
    /\ []WithinCeiling
    /\ (main.pc = "processing") ~> (TasksWith("queued") = {})

\* Main with five episodes in progress and a sixth waiting for a slot.
C20_Witness ==
    /\ main.program = "main"
    /\ Running = 5
    /\ TasksWith("queued") # {}
    /\ Len(main.tasks) > 5


\* ------------------------------------------------ barrier before reassembly
PendingSlots == {k \in DOMAIN fmt.responses : fmt.responses[k] = Pending}

\* The responses have been looked at: a document was returned, or the map
\* over the responses or the reassembly loop threw.
ResponsesInspected ==
    \/ fmt.pc = "returned"
    \/ fmt.pc = "threw" /\ fmt.error.kind \in {"batch", "parse", "type"}

\* While requests are in flight nothing is merged, and a settling request
\* writes its own slot only.
SettleTouchesOwnSlot ==
    (fmt.pc = "fetchAll" /\ fmt'.pc = "fetchAll" /\ fmt' # fmt) =>
        /\ fmt'.out = NoOutput
        /\ \E k \in PendingSlots :
              /\ fmt'.responses[k] # Pending
              /\ \A j \in DOMAIN fmt.responses \ {k} :
                    fmt'.responses[j] = fmt.responses[j]
        /\ fmt'.chunks = fmt.chunks /\ fmt'.requests = fmt.requests

\* C21: in a multi-chunk formatTranscript no response is inspected, parsed
\* or merged before every chunk request has settled: while one is pending
\* the output is empty, a settling request changes its own slot only, and
\* the document (or an error of the inspection) appears only after the last.
C21_BarrierBeforeReassembly ==
    /\ [](IsMulti /\ PendingSlots # {} => fmt.out = NoOutput /\ ~ResponsesInspected)
    /\ [][SettleTouchesOwnSlot]_vars
    /\ [][(IsMulti /\ fmt'.out # fmt.out) => PendingSlots = {}]_vars

\* Three chunks answered in the order 2, 3, 1: two of the three are settled
\* and nothing has been merged yet.
C21_Witness ==
    /\ fmt.pc = "fetchAll"
    /\ fmt.order = <<2, 3>>
    /\ PendingSlots = {1}
    /\ AttemptReturns(fmt.responses[2]) /\ AttemptReturns(fmt.responses[3])
    /\ fmt.out = NoOutput


\* ------------------------------------------------------- everything else
coreVars == <<splitVars, apiKey, call, fmt, parseVars>>
CoreIdle ==
    /\ text = <<>>
    /\ splitPc = "ready"
    /\ split = SplitStart
    /\ apiKey = TRUE
    /\ call = CallIdle
    /\ fmt = FmtIdle
    /\ result = <<>>
    /\ parsed = ParseIdle

\* --------------------------- past-episode import (import script 23-104)
\* A file name is the sequence of its parts between hyphens, ".md" left
\* off: "2024-12-05-7-t.md" is <<"2024", "12", "05", "7", "t">>.
Episode(id, date, title) == [id |-> id, date |-> date, title |-> title]

\* What getEpisodesByFeedId returns for the podcast, newest first.
FeedEpisodes ==
    << Episode("7", <<"2024", "12", "05">>, <<"t">>),
       Episode("12", <<"2024", "07", "01">>, <<"ep", "7", "x">>),
       Episode("9", <<"2024", "03", "09">>, <<>>) >>

\* markdown.ts line 58: `${dateStr}-${episode.id}-${sanitizeFilename(title)}.md`
EpisodeFileName(e) ==
    e.date \o <<e.id>> \o (IF e.title = <<>> THEN <<"">> ELSE e.title)

\* The name a file had before episode ids were part of it.
LegacyFileName(e) == e.date \o (IF e.title = <<>> THEN <<"">> ELSE e.title)

DirFiles ==
    {EpisodeFileName(FeedEpisodes[k]) : k \in 1..Len(FeedEpisodes)}
        \cup {LegacyFileName(FeedEpisodes[k]) : k \in 1..Len(FeedEpisodes)}

\* file.includes(`-${episodeId}-`): the id with a hyphen on both sides is a
\* whole part of the name that is neither the first nor the last.
NameIncludesId(file, id) ==
    \E k \in 2..(Len(file) - 1) : file[k] = id

\* A test that looks for the id at the start of the name.
isAlreadyImported_Prefix(dirExists, files, id) ==
    dirExists /\ \E f \in files : f[1] = id

\* import script 23-34
isAlreadyImported(dirExists, files, id) ==
    IF ~dirExists THEN FALSE
    ELSE \E f \in files : NameIncludesId(f, id)

InitImport ==
    /\ CoreIdle
    /\ scan = ScanIdle /\ ep = EpIdle /\ main = MainIdle /\ tr = TrIdle
    /\ mig = MigIdle /\ tx = TxIdle /\ st = StIdle
    /\ \E d \in BOOLEAN, fs \in SUBSET DirFiles, n \in 1..Len(FeedEpisodes) :
          /\ ~d => fs = {}
          /\ imp = [ImpIdle EXCEPT !.pc = "start", !.dirExists = d, !.files = fs,
                                   !.before = fs, !.lastN = n]

ImpUnchanged == UNCHANGED <<coreVars, scan, ep, main, tr, mig, tx, st>>

\* lines 86-104: the newest lastN episodes, those already imported left out;
\* nothing left ends the program.
ImportFilter ==
    /\ imp.pc = "start"
    /\ LET targets == [k \in 1..Min(imp.lastN, Len(FeedEpisodes)) |-> k]
           keep    == {k \in 1..Len(targets) :
                          ~isAlreadyImported(imp.dirExists, imp.files, FeedEpisodes[k].id)}
           new     == FilterIndexes(Len(targets), 1, keep)
       IN  imp' = [imp EXCEPT !.pc = IF new = <<>> THEN "finished" ELSE "processing",
                              !.targets = targets,
                              !.newEpisodes = new]
    /\ ImpUnchanged

\* lines 109-121: one of the new episodes is processed; when it succeeds its
\* file is written (markdown.ts 118-122), when it throws nothing is.
ImportProcess(k, ok) ==
    /\ imp.pc = "processing"
    /\ k \in {imp.newEpisodes[j] : j \in 1..Len(imp.newEpisodes)} \ imp.started
    /\ imp' = [imp EXCEPT
                 !.started = @ \cup {k},
                 !.dirExists = IF ok THEN TRUE ELSE @,
                 !.files = IF ok THEN @ \cup {EpisodeFileName(FeedEpisodes[k])} ELSE @]
    /\ ImpUnchanged

ImportProcesses ==
    \E k \in 1..Len(FeedEpisodes), ok \in BOOLEAN : ImportProcess(k, ok)

ImportFinish ==
    /\ imp.pc = "processing"
    /\ imp.started = {imp.newEpisodes[j] : j \in 1..Len(imp.newEpisodes)}
    /\ imp' = [imp EXCEPT !.pc = "finished"]
    /\ ImpUnchanged

NextImport ==
    \/ ImportFilter
    \/ ImportProcesses
    \/ ImportFinish

SpecImport == InitImport /\ [][NextImport]_vars

\* The directory held, before the run, the file written for the episode.
HadEpisodeFile(k) == EpisodeFileName(FeedEpisodes[k]) \in imp.before

\* C22: the import never processes an episode whose file, named with the
\* episode's id, was already in the podcast's directory, and it processes
\* nothing but target episodes (the newest lastN) that had no such file.
C22_ImportSkipsImported ==
    /\ \A k \in imp.started :
          /\ ~HadEpisodeFile(k)
          /\ k <= imp.lastN
    /\ \A j \in 1..Len(imp.newEpisodes) :
          /\ ~HadEpisodeFile(imp.newEpisodes[j])
          /\ imp.newEpisodes[j] <= imp.lastN
    /\ imp.before \subseteq imp.files

\* Three targets, the file of the third one already there: the first and
\* the second are processed, the third is not.
C22_Witness ==
    /\ imp.pc = "finished"
    /\ imp.lastN = 3
    /\ imp.before = {EpisodeFileName(FeedEpisodes[3])}
    /\ imp.started = {1, 2}


\* ------------------------------------------------- line-boundary splitter
\* The positions of a text after which a line ends: after every line break,
\* and at the end of the text.
LineEnds(t) == {k \in 1..Len(t) : t[k] = "\n"} \cup {Len(t)}

\* The position in the text at which chunk k ends.
ChunkEndsAt(chunks, k) == SumLen(chunks, k)

\* C23: the chunks of the line-boundary splitter are made of whole lines:
\* every chunk is non-empty and ends where a line of the input ends, a chunk
\* longer than the target is one single line, and the chunks concatenated
\* in order are the input.
C23_LineChunksWholeLines ==
    (tr.pc \in {"returned", "threw"} /\ tr.sourceLanguage # "ja") =>
        /\ Concat(tr.chunks) = tr.text
        /\ \A k \in 1..Len(tr.chunks) :
              /\ tr.chunks[k] # <<>>
              /\ ChunkEndsAt(tr.chunks, k) \in LineEnds(tr.text)
              /\ Len(tr.chunks[k]) > TranslateChunkTarget =>
                    \A j \in 1..(Len(tr.chunks[k]) - 1) : tr.chunks[k][j] # "\n"
        /\ tr.calls = Len(tr.chunks)

\* Two lines that do not fit one chunk together: one chunk each.
C23_Witness ==
    /\ tr.pc = "returned"
    /\ tr.sourceLanguage = "en"
    /\ tr.text = <<"a", "\n", "a">>
    /\ tr.chunks = << <<"a", "\n">>, <<"a">> >>


\* --------------------------------------------- commentary around the JSON
\* Position k starts a well-formed object with a sections member.
SectionsObjectAt(r, k) ==
    /\ k + 2 <= Len(r)
    /\ r[k] = "{"
    /\ r[k + 1] \in {"Sa", "Sb"}
    /\ r[k + 2] = "}"

SectionsObjects(r) == {k \in 1..Len(r) : SectionsObjectAt(r, k)}

\* C24: when the response holds one well-formed sections object, with any
\* commentary before or after it (braces in the commentary included),
\* parseFormatResult returns the sections of that object, not the fallback.
C24_CommentaryTolerantExtraction ==
    (parsed.pc = "returned" /\ Cardinality(SectionsObjects(result)) = 1) =>
        LET k == CHOOSE j \in SectionsObjects(result) : TRUE
        IN  /\ parsed.out.defined
            /\ parsed.out.sections = SectionsOfMember(result[k + 1])


\* ------------------------------------------ content kept on parse failure
\* No span from a "{" to a later "}", or a span that is not a JSON object.
ExtractionFails(r) ==
    \/ ~MatchJson(r).found
    \/ ~JsonParse(MatchJson(r).span).ok

\* How many sections the chunks before chunk k contribute to the document.
SectionsBefore(k) ==
    SumLen([j \in 1..Len(fmt.responses) |->
               parseFormatResult(fmt.responses[j].text).sections], k - 1)

FailedChunks == {k \in DOMAIN fmt.responses : ExtractionFails(fmt.responses[k].text)}

\* C25: in the document a multi-chunk formatTranscript returns, every chunk
\* whose response failed structure extraction is present as one section
\* holding that response verbatim, right after the sections of the chunks
\* before it and right before those of the chunks after it.
C25_FailedChunkKeptInPlace ==
    (fmt.pc = "returned" /\ IsMulti) =>
        \A k \in FailedChunks :
            /\ SectionsBefore(k) + 1 <= Len(fmt.out.sections)
            /\ fmt.out.sections[SectionsBefore(k) + 1].content = fmt.responses[k].text
            /\ fmt.out.sections[SectionsBefore(k) + 1].title = FormatErrorTitle
            /\ SectionsBefore(k + 1) = SectionsBefore(k) + 1

\* Three chunks, the middle response a malformed object, its neighbours
\* well formed: the raw response sits between their sections.
C25_Witness ==
    /\ fmt.pc = "returned"
    /\ Len(fmt.responses) = 3
    /\ FailedChunks = {2}
    /\ fmt.responses[1].text = <<"{", "Sa", "}">>
    /\ fmt.responses[2].text = <<"{", "x", "}">>
    /\ Len(fmt.out.sections) = 4
    /\ fmt.out.sections[3].content = <<"{", "x", "}">>
    /\ fmt.out.sections[4] = Section(<<"tb1">>, <<"cb1">>)


\* ------------------------------------------------- lastChecked after a run
MainRan == main.program = "main" /\ main.pc = "finished"

OkOfFeed(f) == {i \in TasksWith("ok") : main.tasks[i].feed = f}

\* C26: after a run of main the stored lastChecked of a feed is before the
\* publication time of every episode of that feed that failed in the run.
C26_FailedEpisodesStayEligible ==
    MainRan =>
        \A i \in TasksWith("failed") :
            st.lastChecked[main.tasks[i].feed] < PubDateMs(i)

\* C27: after a run of main, a feed with a processed episode has as
\* lastChecked the greatest publication time of its processed episodes, and
\* a feed without one keeps the lastChecked it had; until then, and in the
\* import, nothing is stored.
C27_LastCheckedUpdateRule ==
    /\ MainRan =>
          \A f \in Feeds :
              IF OkOfFeed(f) # {}
              THEN st.lastChecked[f] = SetMax({PubDateMs(i) : i \in OkOfFeed(f)})
              ELSE st.lastChecked[f] = st.before[f]
    /\ ~MainRan => st.lastChecked = st.before

\* Feed 1 with three new episodes of which the newest failed and the two
\* older ones were processed, feed 2 with all of its episodes failed.
C27_Witness ==
    /\ MainRan
    /\ Len(main.tasks) = 5
    /\ st.before = <<10, 10>>
    /\ main.tasks[3].feed = 1 /\ main.tasks[4].feed = 2
    /\ TasksWith("ok") = {2, 3}
    /\ st.lastChecked = <<12, 10>>


\* ---------------------------------------------- callClaude comes to an end
\* The loop of callClaude is straight-line code: it keeps running.
SpecCallFair == SpecCall /\ WF_vars(NextCall)

CallEnded == call.pc \in {"returned", "threw"}

FetchesWithinBound ==
    /\ NumFetches <= 3
    /\ ~apiKey => (NumFetches = 0 /\ call.pc \in {"entered", "threw"})
    /\ (~apiKey /\ call.pc = "threw") => call.error.kind = "config"
    /\ CallEnded => (call.pc = "threw") = (call.error # NoError)
    /\ (apiKey /\ call.pc = "threw") => NumFetches = 3

\* C28: whatever the fetch answers, attempt after attempt, callClaude makes
\* at most 3 fetches and ends, with a returned text or a raised error;
\* without an API key it raises an error without any fetch.
C28_TerminatesWithinBound ==
    /\ []FetchesWithinBound
    /\ <>CallEnded

\* Ended by an error after a transport exception, a 200 without a usable
\* body and a 503.
C28_Witness ==
    /\ call.pc = "threw"
    /\ NumFetches = 3
    /\ call.events[1].kind = "exception"
    /\ call.events[3].code = 200 /\ ~call.events[3].ok
    /\ call.events[5].code = 503


\* ------------------------- transcribeWithRetry (lemonfox.ts 63-77)
\* What one call of transcribe does: it returns a text or throws.
TranscribeOutcomes ==
    {[ok |-> TRUE, text |-> t, error |-> ""] : t \in {"text1", "text2"}}
        \cup {[ok |-> FALSE, text |-> "", error |-> e] : e \in {"http429", "http500", "network"}}

\* The value of a maxRetries argument left out.
DefaultTranscribeRetries == 3

\* A loop that goes round once more.
TxLoopContinues_OneMore(i, retries) == i <= retries

\* line 66: for (let i = 0; i < maxRetries; i++)
TxLoopContinues(i, retries) == i < retries

InitTranscribe ==
    /\ CoreIdle
    /\ scan = ScanIdle /\ ep = EpIdle /\ main = MainIdle /\ tr = TrIdle
    /\ imp = ImpIdle /\ mig = MigIdle /\ st = StIdle
    /\ tx \in {[TxIdle EXCEPT !.pc = "loop", !.maxRetries = m] :
                  m \in 1..MaxTranscribeRetries}

TxUnchanged == UNCHANGED <<coreVars, scan, ep, main, tr, imp, mig, st>>

\* line 68: the attempt returns, and so does transcribeWithRetry
TxAttemptReturns(o) ==
    /\ tx.pc = "loop"
    /\ TxLoopContinues(tx.i, tx.maxRetries)
    /\ o.ok
    /\ tx' = [tx EXCEPT !.pc = "returned", !.result = o.text,
                        !.attempts = Append(@, o)]
    /\ TxUnchanged

\* lines 69-73: the attempt throws; the error is kept, the wait is
\* 2000 * (i + 1) ms, and the loop goes on
TxAttemptFails(o) ==
    /\ tx.pc = "loop"
    /\ TxLoopContinues(tx.i, tx.maxRetries)
    /\ ~o.ok
    /\ tx' = [tx EXCEPT !.lastError = o.error,
                        !.attempts = Append(@, o),
                        !.sleeps = Append(@, 2000 * (tx.i + 1)),
                        !.i = @ + 1]
    /\ TxUnchanged

\* line 76
TxExhausted ==
    /\ tx.pc = "loop"
    /\ ~TxLoopContinues(tx.i, tx.maxRetries)
    /\ tx' = [tx EXCEPT !.pc = "threw",
                        !.error = IF tx.lastError # "" THEN tx.lastError
                                  ELSE "Transcription failed after all retries"]
    /\ TxUnchanged

TxReturns == \E o \in TranscribeOutcomes : TxAttemptReturns(o)
TxFails == \E o \in TranscribeOutcomes : TxAttemptFails(o)

NextTranscribe == TxReturns \/ TxFails \/ TxExhausted

SpecTranscribe == InitTranscribe /\ [][NextTranscribe]_vars

\* C29: transcribeWithRetry calls transcribe at most maxRetries times; the
\* first attempt that succeeds is the last one made and its text is what is
\* returned; the call fails only after maxRetries failed attempts, with the
\* error of the last of them.
C29_TranscribeAttemptBound ==
    /\ Len(tx.attempts) <= tx.maxRetries
    /\ \A k \in 1..Len(tx.attempts) :
          tx.attempts[k].ok =>
              /\ k = Len(tx.attempts)
              /\ tx.pc = "returned"
              /\ tx.result = tx.attempts[k].text
    /\ tx.pc = "returned" =>
          (tx.attempts # <<>> /\ tx.attempts[Len(tx.attempts)].ok)
    /\ tx.pc = "threw" =>
          /\ Len(tx.attempts) = tx.maxRetries
          /\ \A k \in 1..Len(tx.attempts) : ~tx.attempts[k].ok
          /\ tx.error = tx.attempts[tx.maxRetries].error

\* With the default of three attempts: two failures, then the text of the
\* third attempt; and three failures, the last error raised.
C29_Witness ==
    /\ tx.maxRetries = DefaultTranscribeRetries
    /\ tx.pc = "threw"
    /\ tx.attempts[1].error = "http500"
    /\ tx.attempts[2].error = "network"
    /\ tx.error = "http429"
    /\ tx.sleeps = <<2000, 4000, 6000>>


\* ------------------ add-episode-id migration (migrate-add-episode-id.ts)
\* A file of the podcast's directory: its name, the episode_id of its
\* frontmatter ("" when it has none), its body, and the episode of the feed
\* its date and title match (0 when none does).
MdFile(name, id, body, episode) ==
    [name |-> name, id |-> id, body |-> body, episode |-> episode]

\* Written before ids were recorded.
LegacyFile(k) == MdFile(LegacyFileName(FeedEpisodes[k]), "", "legacy", k)

\* Written by the current createEpisodeMarkdown (markdown.ts 58-66).
CurrentFile(k) ==
    MdFile(EpisodeFileName(FeedEpisodes[k]), FeedEpisodes[k].id, "current", k)

\* A file without episode_id that no episode of the feed matches.
UnmatchedFile == MdFile(<<"2020", "01", "01", "intro">>, "", "legacy", 0)

\* A file that has the current name but no episode_id in its frontmatter.
UnstampedFile(k) ==
    MdFile(EpisodeFileName(FeedEpisodes[k]), "", "legacy", k)

MigrationFiles ==
    {LegacyFile(k) : k \in 1..Len(FeedEpisodes)}
        \cup {CurrentFile(k) : k \in 1..Len(FeedEpisodes)}
        \cup {UnstampedFile(Len(FeedEpisodes)), UnmatchedFile}

\* A directory holds one file under a name.
IsDirectory(d) == \A f, g \in d : f.name = g.name => f = g

FileNames(d) == {f.name : f \in d}

FileNamed(dir, name) == CHOOSE f \in dir : f.name = name

\* lines 22-35 and 105-120: the file is left alone when its frontmatter has
\* episode_id or no episode matches it.
SkipsFile(f) == f.id # "" \/ f.episode = 0

\* lines 124-145: the content with episode_id added is written under the
\* new name, whatever was there, and the old file is removed when its name
\* differs.
MigrateFile(dir, f) ==
    LET e       == FeedEpisodes[f.episode]
        newFile == MdFile(EpisodeFileName(e), e.id, f.body, f.episode)
    IN  {g \in dir : g.name # f.name /\ g.name # newFile.name} \cup {newFile}

InitMigrate ==
    /\ CoreIdle
    /\ scan = ScanIdle /\ ep = EpIdle /\ main = MainIdle /\ tr = TrIdle
    /\ imp = ImpIdle /\ tx = TxIdle /\ st = StIdle
    /\ \E d \in SUBSET MigrationFiles :
          /\ IsDirectory(d)
          /\ mig = [MigIdle EXCEPT !.pc = "start", !.run = 1, !.dir = d]

MigUnchanged == UNCHANGED <<coreVars, scan, ep, main, tr, imp, tx, st>>

\* line 73: the .md files of the directory are listed
MigList ==
    /\ mig.pc = "start"
    /\ mig' = [mig EXCEPT !.pc = "files", !.todo = FileNames(mig.dir)]
    /\ MigUnchanged

\* lines 75-151: the next listed file; the order of the listing is the
\* file system's, so any listed file may be the next
MigFile ==
    /\ mig.pc = "files"
    /\ \E name \in mig.todo :
          LET f == FileNamed(mig.dir, name)
          IN  mig' = [mig EXCEPT !.todo = @ \ {name},
                                 !.dir = IF SkipsFile(f) THEN @
                                         ELSE MigrateFile(@, f)]
    /\ MigUnchanged

\* lines 154-157: the run is over; it is run a second time
MigEnd ==
    /\ mig.pc = "files"
    /\ mig.todo = {}
    /\ mig' = IF mig.run = 1
              THEN [mig EXCEPT !.pc = "start", !.run = 2, !.afterFirst = mig.dir]
              ELSE [mig EXCEPT !.pc = "finished"]
    /\ MigUnchanged

NextMigrate == MigList \/ MigFile \/ MigEnd

SpecMigrate == InitMigrate /\ [][NextMigrate]_vars

\* C30: the migration never modifies, renames or deletes a file whose
\* frontmatter already has episode_id, and a second run over the same feed
\* leaves the directory as the first run left it.
C30_MigrationIdempotent ==
    [][/\ \A f \in mig.dir : f.id # "" => f \in mig.dir'
       /\ mig.run = 2 => mig.dir' = mig.dir]_vars

====
